---- MODULE Spec2Model ----
(***************************************************************************)
(* The OTA update engine of src/src/Updater.cpp (class UpdateClass) as a   *)
(* state machine.  One action per public operation (begin, write, end,     *)
(* abort, setMD5, writeStream); writeStream is split at its ingest loop so *)
(* that each loop iteration is one step.  The private helpers (_reset,     *)
(* _abort, _writeBuffer, _verifyHeader, _verifyEnd, _signatureValid,       *)
(* _enablePartition, _partitionIsBootable) are operators on a context      *)
(* record that threads the object, the flash and the boot selection        *)
(* through a call.                                                         *)
(*                                                                         *)
(* The flash geometry is scaled down: the erase block and the stash block  *)
(* are a few bytes instead of 4096 and 16, the partitions hold NumSectors  *)
(* erase blocks.  The code depends on the geometry only through            *)
(* comparisons and differences of these sizes.                             *)
(***************************************************************************)
EXTENDS Integers, Sequences, FiniteSets, TLC

\* ------------------------------------------------------------ geometry
\* Erase block (SPI_FLASH_SEC_SIZE, 4096 on the device), scaled.
SPI_FLASH_SEC_SIZE == 3
\* Stash block (ENCRYPTED_BLOCK_SIZE, 16 on the device), scaled.
ENCRYPTED_BLOCK_SIZE == 2
\* Erase blocks per partition.
NumSectors == 2
\* Longest chunk handed to one write call.
MaxChunk == 5
\* Successful begin calls in one run.
MaxSessions == 1
\* Range of the modelled digests.
HashMod == 2

PartitionSize == NumSectors * SPI_FLASH_SEC_SIZE

\* size_t arithmetic wraps; the device's 2^32 is scaled to 2^30 so that the
\* sums below stay inside TLC's integers.
SIZE_T_MOD == 2^30
UPDATE_SIZE_UNKNOWN == SIZE_T_MOD - 1

ESP_IMAGE_HEADER_MAGIC == 233
\* Value of an erased flash byte.
ERASED == 255
\* A data byte that is neither the magic byte nor the erased value.
OTHER_BYTE == 7
DataBytes == {ESP_IMAGE_HEADER_MAGIC, OTHER_BYTE}
\* The images handed to the engine: a first byte that is the magic byte or
\* not, and then bytes that name their own position, so that a byte stored
\* at the wrong offset, twice or not at all shows in the flash.
ImageByte(i, first) == IF i = 1 THEN first ELSE 10 + i

U_FLASH == 0
U_SPIFFS == 100
\* A command value that is neither U_FLASH nor U_SPIFFS.
OTHER_COMMAND == 200
Commands == {U_FLASH, U_SPIFFS, OTHER_COMMAND}

\* The partition table: the next OTA slot and two data partitions.
Partitions == {"ota", "spiffs", "fat"}
NoPartition == "NULL"

UPDATE_ERROR_OK == "UPDATE_ERROR_OK"
UPDATE_ERROR_WRITE == "UPDATE_ERROR_WRITE"
UPDATE_ERROR_ERASE == "UPDATE_ERROR_ERASE"
UPDATE_ERROR_READ == "UPDATE_ERROR_READ"
UPDATE_ERROR_SPACE == "UPDATE_ERROR_SPACE"
UPDATE_ERROR_SIZE == "UPDATE_ERROR_SIZE"
UPDATE_ERROR_STREAM == "UPDATE_ERROR_STREAM"
UPDATE_ERROR_MD5 == "UPDATE_ERROR_MD5"
UPDATE_ERROR_MAGIC_BYTE == "UPDATE_ERROR_MAGIC_BYTE"
UPDATE_ERROR_ACTIVATE == "UPDATE_ERROR_ACTIVATE"
UPDATE_ERROR_NO_PARTITION == "UPDATE_ERROR_NO_PARTITION"
UPDATE_ERROR_BAD_ARGUMENT == "UPDATE_ERROR_BAD_ARGUMENT"
UPDATE_ERROR_ABORT == "UPDATE_ERROR_ABORT"
UPDATE_ERROR_GET_SHA256 == "UPDATE_ERROR_GET_SHA256"
UPDATE_ERROR_SIGNATURE_NOT_VALID == "UPDATE_ERROR_SIGNATURE_NOT_VALID"
UPDATE_ERROR_SIGNATURE_VERIFICATION == "UPDATE_ERROR_SIGNATURE_VERIFICATION"

VARIABLES
    upd,             \* the UpdateClass object: its fields
    pubKey_toParse,  \* the configured verification key, "NULL" when none
    table,           \* the partitions the partition table holds
    flash,           \* contents of every partition
    bootPartition,   \* the partition marked as boot target
    pc,              \* "idle", "stream" (inside writeStream's loop), "crashed"
    written,         \* writeStream's local: bytes accepted so far in this call
    timeout_failures,\* writeStream's local: zero-byte reads in a row, last read
    peeked,          \* the byte writeStream peeked and has not read yet
    call,            \* the last call: name, argument, result, what it did
    image,           \* the bytes handed to the engine since the last begin
    short,           \* some write of this session returned less than its length
    declared,        \* the size the session was begun with (0: none begun)
    faulted,         \* the environment failed some step of this session
    sessions         \* successful begin calls so far

vars == <<upd, pubKey_toParse, table, flash, bootPartition, pc, written,
          timeout_failures, peeked,
          call, image, short, declared, faulted, sessions>>

\* ------------------------------------------------------------ sequences
Min(a, b) == IF a < b THEN a ELSE b

Take(s, n) == SubSeq(s, 1, Min(n, Len(s)))

Drop(s, n) == SubSeq(s, Min(n, Len(s)) + 1, Len(s))

Fill(n, b) == [i \in 1..n |-> b]

\* ------------------------------------------------------------ the object
\* A heap block: NULL, or allocated with the bytes stored in it so far.
NullBlock == [alloc |-> FALSE, mem |-> <<>>]

Block(bytes) == [alloc |-> TRUE, mem |-> bytes]

\* An Arduino String holding an MD5 in hex: its length and the digest it spells.
emptyString == [len |-> 0, val |-> 0]

\* MD5Builder: begin, add, calculate/toString over a small digest range.
MD5Begin == 0

MD5Add(h, bytes) ==
    LET RECURSIVE Go(_, _)
        Go(acc, i) == IF i > Len(bytes) THEN acc
                      ELSE Go((3 * acc + bytes[i] + 1) % HashMod, i + 1)
    IN Go(h, 1)

MD5ToString(h) == [len |-> 32, val |-> h]

hasError(u) == u._error # UPDATE_ERROR_OK

isRunning(u) == u._size > 0

isFinished(u) == u._progress = u._size

progress(u) == u._progress

remaining(u) == (u._size - u._progress) % SIZE_T_MOD

\* The constructor's member initialisers; _skipBuffer, _target_md5 and _md5 are
\* the zero/default values of the static object.
UpdateClass ==
    [_error |-> UPDATE_ERROR_OK, _buffer |-> NullBlock, _bufferLen |-> 0,
     _size |-> 0, _progress |-> 0, _command |-> U_FLASH,
     _partition |-> NoPartition, _skipBuffer |-> NullBlock,
     _target_md5 |-> emptyString, _md5 |-> MD5Begin]

_reset(u) ==
    [u EXCEPT !._buffer = NullBlock, !._bufferLen = 0, !._progress = 0,
              !._size = 0, !._command = U_FLASH]

_abort(u, err) == [_reset(u) EXCEPT !._error = err]

\* ------------------------------------------------------------ the context
\* What a call threads through its helpers: the object, the flash, the boot
\* selection, the helper's return value, the bytes copied into the pending
\* buffer, the storage calls issued, the flushes attempted, the partition
\* lookups made, whether the environment failed a step, and whether the device
\* has crashed.
Ctx(u, fl, bp) ==
    [u |-> u, flash |-> fl, boot |-> bp, ok |-> TRUE, n |-> 0, taken |-> 0,
     ops |-> 0, flushes |-> 0, lookups |-> 0, fault |-> FALSE, crashed |-> FALSE]

\* ------------------------------------------------------------ partition accessor
\* ESP.partitionEraseRange: one storage call; refuses an offset that is not on
\* an erase-block boundary or a range that leaves the partition; envOk is the
\* hardware's verdict.
partitionEraseRange(c, p, off, len, envOk) ==
    LET c1 == [c EXCEPT !.ops = @ + 1] IN
    IF off % SPI_FLASH_SEC_SIZE # 0 \/ off + len > PartitionSize
    THEN [c1 EXCEPT !.ok = FALSE]
    ELSE IF ~envOk
    THEN [c1 EXCEPT !.ok = FALSE, !.fault = TRUE]
    ELSE [c1 EXCEPT !.ok = TRUE,
                    !.flash[p] = [i \in 1..PartitionSize |->
                                    IF i > off /\ i <= off + len THEN ERASED ELSE @[i]]]

\* ESP.partitionWrite of len bytes taken from src.  The accessor's range check
\* adds offset and length in size_t: a length that wrapped below zero passes
\* it, and the driver then reads far past the source block, which either
\* returns an error or takes the device down (wild says which).
partitionWrite(c, p, off, src, len, envOk, wild) ==
    LET c1 == [c EXCEPT !.ops = @ + 1] IN
    IF off + len >= SIZE_T_MOD
    THEN IF wild THEN [c1 EXCEPT !.ok = FALSE, !.crashed = TRUE]
                 ELSE [c1 EXCEPT !.ok = FALSE]
    ELSE IF off + len > PartitionSize
    THEN [c1 EXCEPT !.ok = FALSE]
    ELSE IF ~envOk
    THEN [c1 EXCEPT !.ok = FALSE, !.fault = TRUE]
    ELSE [c1 EXCEPT !.ok = TRUE,
                    !.flash[p] = [i \in 1..PartitionSize |->
                                    IF i > off /\ i <= off + len THEN src[i - off] ELSE @[i]]]

\* ------------------------------------------------------------ the flush
\* What the environment does to one flush: which step fails ("none", "malloc",
\* "erase", "write"), the value of heap bytes never written, and the outcome of
\* a write whose length wrapped.
NoFault == [kind |-> "none", at |-> 0, garbage |-> ERASED, wild |-> FALSE]

\* A faulty variant of _writeBuffer that stashes the first block but does not
\* hold it back: the whole chunk goes to storage (skip stays 0).
_writeBuffer_noSkip(c, f) ==
    LET u == c.u
        first == u._progress = 0 /\ u._command = U_FLASH
        c0 == [c EXCEPT !.flushes = @ + 1]
    IN
    IF first /\ u._buffer.mem[1] # ESP_IMAGE_HEADER_MAGIC
    THEN [c0 EXCEPT !.u = _abort(u, UPDATE_ERROR_MAGIC_BYTE), !.ok = FALSE]
    ELSE IF first /\ f.kind = "malloc"
    THEN [c0 EXCEPT !.u._skipBuffer = NullBlock, !.ok = FALSE, !.fault = TRUE]
    ELSE
    LET stash == Take(u._buffer.mem \o Fill(ENCRYPTED_BLOCK_SIZE, f.garbage),
                      ENCRYPTED_BLOCK_SIZE)
        u1 == IF first THEN [u EXCEPT !._skipBuffer = Block(stash)] ELSE u
        c2 == partitionEraseRange([c0 EXCEPT !.u = u1], u._partition, u._progress,
                                  SPI_FLASH_SEC_SIZE, f.kind # "erase")
    IN
    IF ~c2.ok
    THEN [c2 EXCEPT !.u = _abort(u1, UPDATE_ERROR_ERASE)]
    ELSE
    LET c3 == partitionWrite(c2, u._partition, u._progress, u._buffer.mem,
                             u._bufferLen, f.kind # "write", f.wild)
    IN
    IF c3.crashed THEN c3
    ELSE IF ~c3.ok
    THEN [c3 EXCEPT !.u = _abort(u1, UPDATE_ERROR_WRITE)]
    ELSE [c3 EXCEPT !.u = [u1 EXCEPT
                             !._md5 = MD5Add(@, u._buffer.mem),
                             !._progress = (@ + u._bufferLen) % SIZE_T_MOD,
                             !._bufferLen = 0,
                             !._buffer = Block(<<>>)]]

_writeBuffer(c, f) ==
    LET u == c.u
        first == u._progress = 0 /\ u._command = U_FLASH
        c0 == [c EXCEPT !.flushes = @ + 1]
    IN
    IF first /\ u._buffer.mem[1] # ESP_IMAGE_HEADER_MAGIC
    THEN [c0 EXCEPT !.u = _abort(u, UPDATE_ERROR_MAGIC_BYTE), !.ok = FALSE]
    ELSE IF first /\ f.kind = "malloc"
    THEN [c0 EXCEPT !.u._skipBuffer = NullBlock, !.ok = FALSE, !.fault = TRUE]
    ELSE
    LET skip == IF first THEN ENCRYPTED_BLOCK_SIZE ELSE 0
        stash == Take(u._buffer.mem \o Fill(ENCRYPTED_BLOCK_SIZE, f.garbage),
                      ENCRYPTED_BLOCK_SIZE)
        u1 == IF first THEN [u EXCEPT !._skipBuffer = Block(stash)] ELSE u
        c2 == partitionEraseRange([c0 EXCEPT !.u = u1], u._partition, u._progress,
                                  SPI_FLASH_SEC_SIZE, f.kind # "erase")
    IN
    IF ~c2.ok
    THEN [c2 EXCEPT !.u = _abort(u1, UPDATE_ERROR_ERASE)]
    ELSE
    LET c3 == partitionWrite(c2, u._partition, u._progress + skip,
                             Drop(u._buffer.mem, skip),
                             (u._bufferLen - skip) % SIZE_T_MOD,
                             f.kind # "write", f.wild)
    IN
    IF c3.crashed THEN c3
    ELSE IF ~c3.ok
    THEN [c3 EXCEPT !.u = _abort(u1, UPDATE_ERROR_WRITE)]
    ELSE [c3 EXCEPT !.u = [u1 EXCEPT
                             !._md5 = MD5Add(@, u._buffer.mem),
                             !._progress = (@ + u._bufferLen) % SIZE_T_MOD,
                             !._bufferLen = 0,
                             !._buffer = Block(<<>>)]]

\* The fault of a call applies to its at-th flush.
FaultAt(f, k) == IF f.at = k THEN f ELSE NoFault

\* ------------------------------------------------------------ write
\* memcpy(_buffer + _bufferLen, bytes, Len(bytes)); _bufferLen += Len(bytes)
BufferAppend(c, bytes) ==
    [c EXCEPT !.u._buffer = Block(@.mem \o bytes),
              !.u._bufferLen = @ + Len(bytes),
              !.taken = @ + Len(bytes)]

RECURSIVE writeLoop(_, _, _, _)
writeLoop(c, data, left, f) ==
    LET len == Len(data) IN
    IF c.u._bufferLen + left > SPI_FLASH_SEC_SIZE
    THEN LET toBuff == SPI_FLASH_SEC_SIZE - c.u._bufferLen
             c1 == BufferAppend(c, SubSeq(data, len - left + 1, len - left + toBuff))
             c2 == _writeBuffer(c1, FaultAt(f, c1.flushes + 1))
         IN IF ~c2.ok THEN [c2 EXCEPT !.n = len - left]
            ELSE writeLoop(c2, data, left - toBuff, f)
    ELSE LET c1 == BufferAppend(c, SubSeq(data, len - left + 1, len))
         IN IF c1.u._bufferLen = remaining(c1.u)
            THEN LET c2 == _writeBuffer(c1, FaultAt(f, c1.flushes + 1))
                 IN IF ~c2.ok THEN [c2 EXCEPT !.n = len - left]
                    ELSE [c2 EXCEPT !.n = len]
            ELSE [c1 EXCEPT !.n = len]

\* A faulty variant of write that lacks the test against remaining().
write_noSpaceCheck(c, data, f) ==
    IF hasError(c.u) \/ ~isRunning(c.u)
    THEN [c EXCEPT !.n = 0]
    ELSE writeLoop(c, data, Len(data), f)

\* A faulty variant of write that tests the length against remaining()
\* before it tests for a sticky error.
write_spaceFirst(c, data, f) ==
    IF Len(data) > remaining(c.u)
    THEN [c EXCEPT !.u = _abort(@, UPDATE_ERROR_SPACE), !.n = 0]
    ELSE IF hasError(c.u) \/ ~isRunning(c.u)
    THEN [c EXCEPT !.n = 0]
    ELSE writeLoop(c, data, Len(data), f)

write(c, data, f) ==
    IF hasError(c.u) \/ ~isRunning(c.u)
    THEN [c EXCEPT !.n = 0]
    ELSE IF Len(data) > remaining(c.u)
    THEN [c EXCEPT !.u = _abort(@, UPDATE_ERROR_SPACE), !.n = 0]
    ELSE writeLoop(c, data, Len(data), f)

\* ------------------------------------------------------------ begin
\* found: the partitions the partition table holds; mallocOk: whether the
\* allocation of the pending buffer succeeds.
\* begin past its already-running test.
beginIdle(c, size, command, found, mallocOk) ==
    LET u0 == [_reset(c.u) EXCEPT !._error = UPDATE_ERROR_OK,
                                  !._target_md5 = emptyString,
                                  !._md5 = MD5Begin]
        fail(u, err, k) == [c EXCEPT !.u = [u EXCEPT !._error = err],
                                     !.ok = FALSE, !.lookups = k]
        sized(u, k) ==
            LET sz == IF size = UPDATE_SIZE_UNKNOWN THEN PartitionSize ELSE size IN
            IF size # UPDATE_SIZE_UNKNOWN /\ size > PartitionSize
            THEN fail(u, UPDATE_ERROR_SIZE, k)
            ELSE IF ~mallocOk
            THEN [c EXCEPT !.u = u, !.ok = FALSE, !.lookups = k, !.fault = TRUE]
            ELSE [c EXCEPT !.u = [u EXCEPT !._buffer = Block(<<>>), !._size = sz,
                                           !._command = command, !._md5 = MD5Begin],
                           !.ok = TRUE, !.lookups = k]
    IN
    IF size = 0 THEN fail(u0, UPDATE_ERROR_SIZE, 0)
    ELSE IF command = U_FLASH
    THEN IF "ota" \in found
         THEN sized([u0 EXCEPT !._partition = "ota"], 1)
         ELSE fail([u0 EXCEPT !._partition = NoPartition], UPDATE_ERROR_NO_PARTITION, 1)
    ELSE IF command = U_SPIFFS
    THEN IF "spiffs" \in found
         THEN sized([u0 EXCEPT !._partition = "spiffs"], 1)
         ELSE IF "fat" \in found
         THEN sized([u0 EXCEPT !._partition = "fat"], 2)
         ELSE fail([u0 EXCEPT !._partition = NoPartition], UPDATE_ERROR_NO_PARTITION, 2)
    ELSE fail(u0, UPDATE_ERROR_BAD_ARGUMENT, 0)

\* A faulty variant of begin that tests the size before the running session.
begin_sizeFirst(c, size, command, found, mallocOk) ==
    IF size = 0 \/ c.u._size = 0
    THEN beginIdle(c, size, command, found, mallocOk)
    ELSE [c EXCEPT !.ok = FALSE]

\* A faulty variant of begin that lacks the already-running test.
begin_noGuard(c, size, command, found, mallocOk) ==
    beginIdle(c, size, command, found, mallocOk)

begin(c, size, command, found, mallocOk) ==
    IF c.u._size > 0
    THEN [c EXCEPT !.ok = FALSE]
    ELSE beginIdle(c, size, command, found, mallocOk)

\* ------------------------------------------------------------ end
\* What the environment does to one end call: the fault of the flush it
\* performs, the first of its later steps that fails ("none", "enableSig",
\* "sha", "key", "sig", "enableEnd", "read", "boot"), and whether a storage
\* write from a null source takes the device down or returns an error.
EndSteps == {"none", "enableSig", "sha", "key", "sig", "enableEnd", "read", "boot"}

_partitionIsBootable(c, p, readOk) ==
    IF p = NoPartition THEN FALSE
    ELSE IF ~readOk THEN FALSE
    ELSE c.flash[p][1] = ESP_IMAGE_HEADER_MAGIC

\* A faulty variant of _enablePartition that writes one byte too few of the
\* stash.
_enablePartition_short(c, p, envOk, nullCrash) ==
    IF p = NoPartition THEN [c EXCEPT !.ok = FALSE]
    ELSE IF ~c.u._skipBuffer.alloc
    THEN IF nullCrash THEN [c EXCEPT !.ok = FALSE, !.ops = @ + 1, !.crashed = TRUE]
                      ELSE [c EXCEPT !.ok = FALSE, !.ops = @ + 1]
    ELSE partitionWrite(c, p, 0, c.u._skipBuffer.mem, ENCRYPTED_BLOCK_SIZE - 1,
                        envOk, FALSE)

_enablePartition(c, p, envOk, nullCrash) ==
    IF p = NoPartition THEN [c EXCEPT !.ok = FALSE]
    ELSE IF ~c.u._skipBuffer.alloc
    THEN IF nullCrash THEN [c EXCEPT !.ok = FALSE, !.ops = @ + 1, !.crashed = TRUE]
                      ELSE [c EXCEPT !.ok = FALSE, !.ops = @ + 1]
    ELSE partitionWrite(c, p, 0, c.u._skipBuffer.mem, ENCRYPTED_BLOCK_SIZE,
                        envOk, FALSE)

\* esp_ota_set_boot_partition: 0 on success; only an OTA application slot can
\* be made the boot target.
esp_ota_set_boot_partition(c, p, envOk) ==
    IF p = "ota" /\ envOk
    THEN [c EXCEPT !.boot = p, !.ok = TRUE]
    ELSE [c EXCEPT !.ok = FALSE, !.fault = (p = "ota")]

_verifyEnd(c, e) ==
    IF c.u._command = U_FLASH
    THEN LET p == c.u._partition
             c1 == _enablePartition(c, p, e.step # "enableEnd", e.nullCrash)
         IN IF c1.crashed THEN c1
            ELSE IF ~c1.ok \/ ~_partitionIsBootable(c1, p, e.step # "read")
            THEN [c1 EXCEPT !.u = _abort(@, UPDATE_ERROR_READ), !.ok = FALSE,
                            !.fault = (@ \/ e.step = "read")]
            ELSE LET c2 == esp_ota_set_boot_partition(c1, p, e.step # "boot")
                 IN IF ~c2.ok
                    THEN [c2 EXCEPT !.u = _abort(@, UPDATE_ERROR_ACTIVATE)]
                    ELSE [c2 EXCEPT !.u = _reset(@), !.ok = TRUE]
    ELSE IF c.u._command = U_SPIFFS
    THEN [c EXCEPT !.u = _reset(@), !.ok = TRUE]
    ELSE [c EXCEPT !.ok = FALSE]

\* The signature check: the stash is written back, the partition is hashed,
\* the key is parsed, the signature is verified.  The signature supplied is
\* the signer's over the image handed to the engine (signed), or not (e.step =
\* "sig"); it verifies only against a partition that holds that image.
_signatureValid(c, e, signed) ==
    LET p == c.u._partition
        c1 == _enablePartition(c, p, e.step # "enableSig", e.nullCrash)
    IN
    IF c1.crashed THEN c1
    ELSE IF ~c1.ok
    THEN [c1 EXCEPT !.u = _abort(@, UPDATE_ERROR_NO_PARTITION)]
    ELSE IF e.step = "sha"
    THEN [c1 EXCEPT !.u = _abort(@, UPDATE_ERROR_GET_SHA256), !.ok = FALSE, !.fault = TRUE]
    ELSE IF e.step = "key"
    THEN [c1 EXCEPT !.u = _abort(@, UPDATE_ERROR_SIGNATURE_NOT_VALID), !.ok = FALSE,
                    !.fault = TRUE]
    ELSE IF e.step = "sig" \/ Take(c1.flash[p], Len(signed)) # signed
    THEN [c1 EXCEPT !.u = _abort(@, UPDATE_ERROR_SIGNATURE_NOT_VALID), !.ok = FALSE,
                    !.fault = (e.step = "sig")]
    ELSE [c1 EXCEPT !.ok = TRUE]

\* A faulty variant of end that lacks the comparison with the expected hash.
end_noHashGate(c, evenIfRemaining, e, pubKey, signed) ==
    LET u == c.u IN
    IF hasError(u) \/ u._size = 0
    THEN [c EXCEPT !.ok = FALSE]
    ELSE IF ~isFinished(u) /\ ~evenIfRemaining
    THEN [c EXCEPT !.u = _abort(@, UPDATE_ERROR_ABORT), !.ok = FALSE]
    ELSE
    LET c1 == IF evenIfRemaining
              THEN LET cf == IF u._bufferLen > 0 THEN _writeBuffer(c, e.flush) ELSE c
                   IN [cf EXCEPT !.u._size = progress(cf.u)]
              ELSE c
    IN
    IF c1.crashed THEN c1
    ELSE
    LET c2 == IF pubKey # "NULL" THEN _signatureValid(c1, e, signed)
                                 ELSE [c1 EXCEPT !.ok = TRUE]
    IN
    IF c2.crashed THEN c2
    ELSE IF ~c2.ok
    THEN [c2 EXCEPT !.u = _abort(@, UPDATE_ERROR_SIGNATURE_VERIFICATION)]
    ELSE _verifyEnd(c2, e)

end(c, evenIfRemaining, e, pubKey, signed) ==
    LET u == c.u IN
    IF hasError(u) \/ u._size = 0
    THEN [c EXCEPT !.ok = FALSE]
    ELSE IF ~isFinished(u) /\ ~evenIfRemaining
    THEN [c EXCEPT !.u = _abort(@, UPDATE_ERROR_ABORT), !.ok = FALSE]
    ELSE
    LET c1 == IF evenIfRemaining
              THEN LET cf == IF u._bufferLen > 0 THEN _writeBuffer(c, e.flush) ELSE c
                   IN [cf EXCEPT !.u._size = progress(cf.u)]
              ELSE c
    IN
    IF c1.crashed THEN c1
    ELSE IF c1.u._target_md5.len > 0 /\ c1.u._target_md5 # MD5ToString(c1.u._md5)
    THEN [c1 EXCEPT !.u = _abort(@, UPDATE_ERROR_MD5), !.ok = FALSE]
    ELSE
    LET c2 == IF pubKey # "NULL" THEN _signatureValid(c1, e, signed)
                                 ELSE [c1 EXCEPT !.ok = TRUE]
    IN
    IF c2.crashed THEN c2
    ELSE IF ~c2.ok
    THEN [c2 EXCEPT !.u = _abort(@, UPDATE_ERROR_SIGNATURE_VERIFICATION)]
    ELSE _verifyEnd(c2, e)

\* ------------------------------------------------------------ writeStream
\* The zero-byte reads in a row after which the ingest loop gives up.
STREAM_STALL_LIMIT == 300

\* data.peek() cast to uint8_t: the next byte of the source, or 255 for the
\* -1 of a source that has nothing yet.
NO_DATA == 255

\* A faulty variant of _verifyHeader that accepts every first byte.
_verifyHeader_accepting(c, data) ==
    [c EXCEPT !.ok = (c.u._command \in {U_FLASH, U_SPIFFS})]

\* A faulty variant of _verifyHeader that turns a wrong first byte away
\* without recording the error.
_verifyHeader_noAbort(c, data) ==
    IF c.u._command = U_FLASH
    THEN [c EXCEPT !.ok = (data = ESP_IMAGE_HEADER_MAGIC)]
    ELSE [c EXCEPT !.ok = (c.u._command = U_SPIFFS)]

_verifyHeader(c, data) ==
    IF c.u._command = U_FLASH
    THEN IF data # ESP_IMAGE_HEADER_MAGIC
         THEN [c EXCEPT !.u = _abort(@, UPDATE_ERROR_MAGIC_BYTE), !.ok = FALSE]
         ELSE [c EXCEPT !.ok = TRUE]
    ELSE IF c.u._command = U_SPIFFS
    THEN [c EXCEPT !.ok = TRUE]
    ELSE [c EXCEPT !.ok = FALSE]

\* writeStream up to its ingest loop: ok says whether the loop is entered.
writeStreamEnter(c, peekByte) ==
    IF hasError(c.u) \/ ~isRunning(c.u)
    THEN [c EXCEPT !.ok = FALSE]
    ELSE LET c1 == _verifyHeader(c, peekByte) IN
         IF ~c1.ok THEN [c1 EXCEPT !.u = _reset(@)]
         ELSE [c1 EXCEPT !.ok = (remaining(c1.u) # 0)]

\* What one pass of the ingest loop asks the source for.
bytesToRead(u) ==
    LET room == SPI_FLASH_SEC_SIZE - u._bufferLen IN
    IF room > remaining(u) THEN remaining(u) ELSE room

\* A faulty variant of the pass that gives up one empty read early.
writeStreamPass_oneEarly(c, acc, stalls, bytes, f) ==
    IF stalls + 1 >= STREAM_STALL_LIMIT \/ Len(bytes) = 0
    THEN [c EXCEPT !.u = _abort(@, UPDATE_ERROR_STREAM), !.n = acc, !.ok = FALSE]
    ELSE
    LET c1 == BufferAppend(c, bytes)
        flush == c1.u._bufferLen = remaining(c1.u)
                 \/ c1.u._bufferLen = SPI_FLASH_SEC_SIZE
        c2 == IF flush THEN _writeBuffer(c1, f) ELSE [c1 EXCEPT !.ok = TRUE]
    IN
    IF ~c2.ok THEN [c2 EXCEPT !.n = acc]
    ELSE [c2 EXCEPT !.n = acc + Len(bytes), !.ok = (remaining(c2.u) # 0)]

\* One pass of the ingest loop: the source returns 0 bytes stalls times in a
\* row and then bytes (when it does before the limit); n counts the bytes the
\* call has accepted, ok says whether the loop goes on.
writeStreamPass(c, acc, stalls, bytes, f) ==
    IF stalls >= STREAM_STALL_LIMIT \/ Len(bytes) = 0
    THEN [c EXCEPT !.u = _abort(@, UPDATE_ERROR_STREAM), !.n = acc, !.ok = FALSE]
    ELSE
    LET c1 == BufferAppend(c, bytes)
        flush == c1.u._bufferLen = remaining(c1.u)
                 \/ c1.u._bufferLen = SPI_FLASH_SEC_SIZE
        c2 == IF flush THEN _writeBuffer(c1, f) ELSE [c1 EXCEPT !.ok = TRUE]
    IN
    IF ~c2.ok THEN [c2 EXCEPT !.n = acc]
    ELSE [c2 EXCEPT !.n = acc + Len(bytes), !.ok = (remaining(c2.u) # 0)]

\* ------------------------------------------------------------ setMD5, abort
\* A candidate argument of setMD5: a hex string with its length.
MD5Strings == [len : {31, 32}, val : 0..(HashMod - 1)]

setMD5(u, expected_md5) ==
    IF expected_md5.len # 32 THEN u ELSE [u EXCEPT !._target_md5 = expected_md5]

\* A faulty variant of abort that sets the error without resetting the session.
abort_noReset(u) == [u EXCEPT !._error = UPDATE_ERROR_ABORT]

abort(u) == _abort(u, UPDATE_ERROR_ABORT)

\* ------------------------------------------------------------ actions
\* What is observed of a call: its name, the class of its argument, its
\* return value (ok: true, or the whole length accepted; zero: a size_t
\* result of 0), whether it issued a storage
\* erase or write, how many partition lookups it made, whether the
\* environment failed one of its steps, and whether it changed nothing.
Returned(name, arg, c) ==
    [name |-> name, arg |-> arg, ok |-> c.ok, zero |-> c.n = 0,
     touched |-> c.ops > 0, lookups |-> c.lookups, fault |-> c.fault,
     noop |-> FALSE]

\* A call that changed nothing leaves the device in the state it found: what
\* can follow it can follow the state before it, so a run is not continued
\* past it.  Observed(r) is the record r of a call with that mark set.
Observed(r) ==
    [r EXCEPT !.noop = (/\ upd' = upd /\ flash' = flash
                        /\ bootPartition' = bootPartition /\ pc' = pc
                        /\ image' = image /\ short' = short
                        /\ declared' = declared /\ faulted' = faulted
                        /\ sessions' = sessions /\ written' = written
                        /\ timeout_failures' = timeout_failures
                        /\ peeked' = peeked)]

Ready == pc = "idle" /\ ~call.noop

Here == Ctx(upd, flash, bootPartition)

\* Commit the context a call ended with.
Commit(c) ==
    /\ upd' = c.u
    /\ flash' = c.flash
    /\ bootPartition' = c.boot
    /\ pc' = IF c.crashed THEN "crashed" ELSE "idle"

\* The arguments worth telling apart: while a session is active every begin is
\* turned away at its first test, so one zero and one non-zero size stand for
\* all of them.
BeginSizes(u) ==
    IF u._size > 0 THEN {0, 1}
    ELSE (0..(PartitionSize + 1)) \cup {UPDATE_SIZE_UNKNOWN}

BeginCommands(u) == IF u._size > 0 THEN {U_FLASH} ELSE Commands

BeginMallocs(u) == IF u._size > 0 THEN {TRUE} ELSE BOOLEAN

Begin ==
    /\ Ready
    /\ \E size \in BeginSizes(upd), command \in BeginCommands(upd),
          mallocOk \in BeginMallocs(upd) :
          LET c == begin(Here, size, command, table, mallocOk) IN
          /\ upd._size > 0 \/ sessions < MaxSessions
          /\ Commit(c)
          /\ sessions' = IF c.ok THEN sessions + 1 ELSE sessions
          /\ image' = IF upd._size > 0 THEN image ELSE <<>>
          /\ short' = IF upd._size > 0 THEN short ELSE FALSE
          /\ declared' = IF upd._size > 0 THEN declared ELSE c.u._size
          /\ faulted' = IF upd._size > 0 THEN faulted ELSE c.fault
          /\ UNCHANGED <<pubKey_toParse, table, written, timeout_failures, peeked>>
          /\ call' = Observed(Returned("begin",
                                       IF size = 0 THEN "zero" ELSE "nonzero", c))

\* How many flushes a call that hands over addLen bytes attempts when none
\* fails.
FlushCount(u, addLen) ==
    LET total == u._bufferLen + addLen
        full == IF total > SPI_FLASH_SEC_SIZE
                THEN (total - 1) \div SPI_FLASH_SEC_SIZE ELSE 0
        rest == total - full * SPI_FLASH_SEC_SIZE
        left == (u._size - u._progress - (full * SPI_FLASH_SEC_SIZE)) % SIZE_T_MOD
    IN full + (IF rest = left THEN 1 ELSE 0)

\* The faults a call that attempts k flushes can meet: none, or a failing step
\* of one of its flushes (the stash allocation only on the first flush of a
\* flashable image); and, when that first flush can run on fewer bytes than
\* the stash block, the uninitialised bytes and the outcome of the wrapped write.
CallFaults(u, addLen, k) ==
    LET first == u._progress = 0 /\ u._command = U_FLASH
        under == first /\ u._bufferLen + addLen < ENCRYPTED_BLOCK_SIZE
        steps == {[kind |-> "none", at |-> 0]}
                 \cup [kind : {"erase", "write"}, at : 1..k]
                 \cup (IF first /\ k > 0 THEN {[kind |-> "malloc", at |-> 1]} ELSE {})
    IN {[kind |-> s.kind, at |-> s.at, garbage |-> g, wild |-> w] :
           s \in steps,
           g \in (IF under /\ k > 0 THEN DataBytes ELSE {ERASED}),
           w \in (IF under /\ k > 0 THEN BOOLEAN ELSE {FALSE})}

\* The chunk a write call hands over: the next len bytes of the image, whose
\* first byte the caller has chosen; a call the entry test turns away ignores
\* its data, so an empty and a one-byte chunk stand for all of them.
Chunk(len, first) ==
    [i \in 1..len |->
       ImageByte(Len(image) + i, IF image = <<>> THEN first ELSE image[1])]

WriteLens(u) ==
    IF hasError(u) \/ ~isRunning(u) THEN {0, 1} ELSE 0..MaxChunk

FirstBytes(len) == IF image = <<>> /\ len > 0 THEN DataBytes ELSE {OTHER_BYTE}

WriteFaults(u, addLen) ==
    IF hasError(u) \/ ~isRunning(u) \/ addLen > remaining(u)
    THEN CallFaults(u, addLen, 0)
    ELSE CallFaults(u, addLen, FlushCount(u, addLen))

Write ==
    /\ Ready
    /\ \E len \in WriteLens(upd) :
       \E first \in FirstBytes(len), f \in WriteFaults(upd, len) :
          LET data == Chunk(len, first)
              c == write(Here, data, f)
          IN
          /\ Commit(c)
          /\ image' = image \o Take(data, c.taken)
          /\ short' = (short \/ (isRunning(upd) /\ ~hasError(upd) /\ c.n < len))
          /\ faulted' = (faulted \/ c.fault)
          /\ UNCHANGED <<pubKey_toParse, table, written, timeout_failures, peeked,
                         declared, sessions>>
          /\ call' = Observed(Returned("write",
                                       IF hasError(upd) \/ ~isRunning(upd) THEN "idle"
                                       ELSE IF len > remaining(upd) THEN "over"
                                       ELSE "fits",
                                       [c EXCEPT !.ok = (c.n = len)]))

\* The environments worth telling apart for an end call: none for a call the
\* entry tests turn away; otherwise a fault of the flush end(true) performs on
\* a pending chunk, one failing later step, and the outcome of a write from a
\* null stash.
EndEnvs(u, evenIfRemaining) ==
    IF hasError(u) \/ u._size = 0 \/ (~isFinished(u) /\ ~evenIfRemaining)
    THEN {[flush |-> NoFault, step |-> "none", nullCrash |-> FALSE]}
    ELSE [flush : CallFaults(u, 0,
                     IF evenIfRemaining /\ u._bufferLen > 0 THEN 1 ELSE 0),
          step : IF pubKey_toParse = "NULL"
                 THEN {"none", "enableEnd", "read", "boot"} ELSE EndSteps,
          nullCrash : BOOLEAN]

End ==
    /\ Ready
    /\ \E evenIfRemaining \in BOOLEAN :
       \E e \in EndEnvs(upd, evenIfRemaining) :
          LET c == end(Here, evenIfRemaining, e, pubKey_toParse, image) IN
          /\ Commit(c)
          /\ faulted' = (faulted \/ c.fault)
          /\ UNCHANGED <<pubKey_toParse, table, written, timeout_failures, peeked,
                         image, short, declared, sessions>>
          /\ call' = Observed(Returned("end",
                                       IF evenIfRemaining THEN "evenIfRemaining"
                                                          ELSE "strict", c))

\* The byte a source shows to peek: the next byte of the image, or nothing.
PeekBytes(u) ==
    IF hasError(u) \/ ~isRunning(u) THEN {NO_DATA}
    ELSE IF image = <<>> THEN DataBytes \cup {NO_DATA}
    ELSE {ImageByte(Len(image) + 1, image[1]), NO_DATA}

WriteStream ==
    /\ Ready
    /\ \E pk \in PeekBytes(upd) :
          LET c == writeStreamEnter(Here, pk) IN
          /\ upd' = c.u
          /\ flash' = c.flash
          /\ bootPartition' = c.boot
          /\ pc' = IF c.ok THEN "stream" ELSE "idle"
          /\ written' = 0
          /\ timeout_failures' = 0
          /\ peeked' = IF c.ok THEN pk ELSE NO_DATA
          /\ UNCHANGED <<pubKey_toParse, table, image, short, declared, faulted,
                         sessions>>
          /\ call' = Observed([Returned("writeStream",
                                         IF hasError(upd) \/ ~isRunning(upd) THEN "idle"
                                         ELSE IF pk = NO_DATA THEN "nothing"
                                         ELSE IF pk = ESP_IMAGE_HEADER_MAGIC
                                         THEN "magic" ELSE "other", c)
                                 EXCEPT !.ok = FALSE, !.zero = TRUE])

\* The runs of zero-byte reads worth telling apart: none, one short of the
\* limit, the limit.
StallRuns == {0, STREAM_STALL_LIMIT - 1, STREAM_STALL_LIMIT}

\* What the source delivers to a read of up to want bytes: at least one of
\* the next bytes of the image.
Delivered(want) ==
    {[i \in 1..k |->
        ImageByte(Len(image) + i,
                  IF image # <<>> THEN image[1]
                  ELSE IF peeked # NO_DATA THEN peeked ELSE first)] :
       k \in 1..want,
       first \in (IF image = <<>> /\ peeked = NO_DATA THEN DataBytes ELSE {OTHER_BYTE})}

StreamPass ==
    /\ pc = "stream"
    /\ \E stalls \in StallRuns :
       \E bytes \in (IF stalls = STREAM_STALL_LIMIT \/ bytesToRead(upd) = 0
                     THEN {<<>>} ELSE Delivered(bytesToRead(upd))) :
       \E f \in CallFaults(upd, Len(bytes),
                   IF bytes # <<>>
                      /\ (upd._bufferLen + Len(bytes) = remaining(upd)
                          \/ upd._bufferLen + Len(bytes) = SPI_FLASH_SEC_SIZE)
                   THEN 1 ELSE 0) :
          LET c == writeStreamPass(Here, written, stalls, bytes, f) IN
          /\ upd' = c.u
          /\ flash' = c.flash
          /\ bootPartition' = c.boot
          /\ pc' = IF c.crashed THEN "crashed" ELSE IF c.ok THEN "stream" ELSE "idle"
          /\ written' = IF pc' = "stream" THEN c.n ELSE 0
          /\ timeout_failures' = IF pc' # "stream" THEN 0
                                 ELSE IF bytes = <<>> THEN STREAM_STALL_LIMIT
                                 ELSE stalls
          /\ peeked' = IF pc' = "stream" THEN peeked ELSE NO_DATA
          /\ image' = image \o Take(bytes, c.taken)
          /\ short' = (short \/ c.taken > c.n - written)
          /\ faulted' = (faulted \/ c.fault \/ bytes = <<>>)
          /\ UNCHANGED <<pubKey_toParse, table, declared, sessions>>
          /\ call' = [call EXCEPT !.zero = (c.n = 0),
                                  !.ok = (remaining(c.u) = 0 /\ ~hasError(c.u)),
                                  !.touched = (@ \/ c.ops > 0),
                                  !.fault = (@ \/ c.fault)]

\* setMD5 is called between begin and end: begin discards an earlier value.
SetMD5 ==
    /\ Ready
    /\ isRunning(upd)
    /\ \E s \in MD5Strings :
          /\ upd' = setMD5(upd, s)
          /\ UNCHANGED <<pubKey_toParse, table, flash, bootPartition, pc, written,
                         timeout_failures, peeked, image, short, declared,
                         faulted, sessions>>
          /\ call' = Observed([Returned("setMD5", "-", Here)
                                  EXCEPT !.ok = (s.len = 32)])

Abort ==
    /\ Ready
    /\ upd' = abort(upd)
    /\ UNCHANGED <<pubKey_toParse, table, flash, bootPartition, pc, written,
                   timeout_failures, peeked, image, short, declared, faulted,
                   sessions>>
    /\ call' = Observed(Returned("abort", "-", Here))

\* ------------------------------------------------------------ specification
\* The partition tables a device can have: an OTA slot and a SPIFFS data
\* partition, a FAT data partition only, or neither.
PartitionTables == {{"ota", "spiffs"}, {"fat"}, {}}

\* The device as the first call finds it: the object as constructed, the data
\* partitions erased, the OTA slot erased or holding an older image, the
\* running application marked as boot target, a verification key configured
\* or not.
Init ==
    /\ upd = UpdateClass
    /\ pubKey_toParse \in {"NULL", "key"}
    /\ table \in PartitionTables
    /\ \E b \in (IF "ota" \in table THEN {ERASED, ESP_IMAGE_HEADER_MAGIC}
                                     ELSE {ERASED}) :
          flash = [p \in Partitions |->
                     IF p = "ota" THEN <<b>> \o Fill(PartitionSize - 1, ERASED)
                     ELSE Fill(PartitionSize, ERASED)]
    /\ bootPartition = "factory"
    /\ pc = "idle"
    /\ written = 0
    /\ timeout_failures = 0
    /\ peeked = NO_DATA
    /\ call = Returned("UpdateClass", "-", Here)
    /\ image = <<>>
    /\ short = FALSE
    /\ declared = 0
    /\ faulted = FALSE
    /\ sessions = 0

Next ==
    \/ Begin
    \/ Write
    \/ End
    \/ WriteStream
    \/ StreamPass
    \/ SetMD5
    \/ Abort

Spec == Init /\ [][Next]_vars

\* ------------------------------------------------------------ a second session
\* begin called once the first session is over (ended, aborted or failed): the
\* object is the one the first session left behind.
Restart ==
    /\ Ready
    /\ upd._size = 0
    /\ sessions = MaxSessions
    /\ \E size \in BeginSizes(upd), command \in BeginCommands(upd) :
          LET c == begin(Here, size, command, table, TRUE) IN
          /\ Commit(c)
          /\ sessions' = IF c.ok THEN sessions + 1 ELSE sessions
          /\ image' = <<>>
          /\ short' = FALSE
          /\ declared' = c.u._size
          /\ faulted' = c.fault
          /\ UNCHANGED <<pubKey_toParse, table, written, timeout_failures, peeked>>
          /\ call' = Observed(Returned("begin",
                                       IF size = 0 THEN "zero" ELSE "nonzero", c))

\* The environment fails no step and the source never runs dry.
Calm == ~faulted /\ pc # "crashed"

\* The calls of two write-fed sessions.
NextRestart ==
    \/ Begin /\ Calm'
    \/ Write /\ Calm'
    \/ End /\ Calm'
    \/ Abort /\ Calm'
    \/ Restart /\ Calm'

\* A device that has an OTA slot and no verification key.
InitRestart == Init /\ "ota" \in table /\ pubKey_toParse = "NULL"

\* Two sessions in a row, fed by write, on a device whose environment fails
\* no step.
SpecRestart == InitRestart /\ [][NextRestart]_vars

\* ------------------------------------------------------------ properties
\* C1: a session begun with a size that fits its partition, given the correct
\* expected hash and write calls totalling exactly that size (the first byte
\* the image magic on a flashable target), no step of it failed by the
\* environment, has the end(false) that follows its last write return success.
C1_EndReturnsSuccess ==
    [][(/\ call'.name = "end" /\ call'.arg = "strict"
        /\ call.name = "write"
        /\ declared > 0 /\ Len(image) = declared /\ ~faulted'
        /\ (upd._partition = "ota" => image[1] = ESP_IMAGE_HEADER_MAGIC)
        /\ upd._target_md5 = MD5ToString(MD5Add(MD5Begin, image)))
       => call'.ok]_vars

\* C2: when end has returned success for a session begun with size N whose
\* write calls were handed, in whatever chunks, the N bytes of an image and
\* accepted each chunk whole, the first N bytes of the target partition are
\* the image, the stashed leading block included.
C2_RoundTrip ==
    (/\ call.name = "end" /\ call.ok
     /\ declared > 0 /\ Len(image) = declared /\ ~short)
    => Take(flash[upd._partition], declared) = image

\* C2's case: a flashable image of more than one erase block, handed over in
\* full, has been ended with success and is on the partition.
C2_Witness ==
    /\ call.name = "end" /\ call.ok
    /\ upd._partition = "ota"
    /\ declared > SPI_FLASH_SEC_SIZE /\ Len(image) = declared /\ ~short
    /\ Take(flash["ota"], declared) = image

\* C3: in a flashable-firmware session that has flushed at least once and has
\* not been ended, the first byte of the target partition is not the image
\* magic byte.
C3_FirstByteWithheld ==
    (upd._command = U_FLASH /\ isRunning(upd) /\ upd._progress > 0)
    => flash[upd._partition][1] # ESP_IMAGE_HEADER_MAGIC

\* C3's case: a flashable session between its first flush and its end, over a
\* partition whose first block has been erased and written from the offset
\* past the stash.
C3_Witness ==
    /\ upd._command = U_FLASH /\ isRunning(upd)
    /\ upd._progress > 0 /\ ~isFinished(upd)
    /\ image[1] = ESP_IMAGE_HEADER_MAGIC
    /\ upd._skipBuffer.alloc /\ upd._skipBuffer.mem[1] = ESP_IMAGE_HEADER_MAGIC
    /\ flash["ota"][1] = ERASED
    /\ flash["ota"][ENCRYPTED_BLOCK_SIZE + 1] = image[ENCRYPTED_BLOCK_SIZE + 1]

\* C4: an end call on a flashable session that has flushed, failing with the
\* hash or the signature error, leaves the first byte of the target partition
\* other than the image magic byte: the stash is not written back before
\* every configured verification has succeeded.
C4_StashAfterVerification ==
    [][(/\ call'.name = "end"
        /\ upd._command = U_FLASH /\ isRunning(upd) /\ ~hasError(upd)
        /\ upd._progress > 0
        /\ upd'._error \in {UPDATE_ERROR_MD5, UPDATE_ERROR_SIGNATURE_VERIFICATION})
       => flash'[upd._partition][1] # ESP_IMAGE_HEADER_MAGIC]_vars

\* C5: end never returns true while a sticky error is set.
C5_EndTrueOnlyErrorFree ==
    (call.name = "end" /\ call.ok) => ~hasError(upd)

\* C6: in an active error-free session a write call longer than remaining()
\* returns 0, sets the sticky error to UPDATE_ERROR_SPACE, leaves the engine
\* idle (size 0, progress 0, pending buffer freed and empty) and issues no
\* storage operation: flash and boot target are as before.
C6_OverlongWrite ==
    [][(call'.name = "write" /\ call'.arg = "over")
       => /\ call'.zero
          /\ upd'._error = UPDATE_ERROR_SPACE
          /\ upd'._size = 0 /\ upd'._progress = 0
          /\ ~upd'._buffer.alloc /\ upd'._bufferLen = 0
          /\ ~call'.touched
          /\ flash' = flash /\ bootPartition' = bootPartition]_vars

\* C6's case: a session that had accepted bytes has been aborted by an
\* overlong write.
C6_Witness ==
    /\ call.name = "write" /\ call.arg = "over"
    /\ image # <<>>
    /\ upd._error = UPDATE_ERROR_SPACE /\ ~isRunning(upd)

\* C7 as stated: begin with size 0 fails with the sticky error
\* UPDATE_ERROR_SIZE and no partition lookup, from every state.
C7_BeginZeroAlwaysBadSize ==
    (call.name = "begin" /\ call.arg = "zero")
    => ~call.ok /\ call.lookups = 0 /\ upd._error = UPDATE_ERROR_SIZE

\* C7 amended: begin with size 0 returns failure and makes no partition
\* lookup; with no session active it sets the sticky error to
\* UPDATE_ERROR_SIZE, and while a session is active it changes nothing, the
\* sticky error included.
C7_BeginZero ==
    [][(call'.name = "begin" /\ call'.arg = "zero")
       => /\ ~call'.ok /\ call'.lookups = 0
          /\ IF isRunning(upd)
             THEN upd' = upd
             ELSE upd'._error = UPDATE_ERROR_SIZE /\ ~isRunning(upd')]_vars

\* C7's case: begin with size 0 has been called on a session that is active
\* and error-free, and the session is still there.
C7_Witness ==
    /\ call.name = "begin" /\ call.arg = "zero" /\ ~call.ok
    /\ isRunning(upd) /\ ~hasError(upd) /\ image # <<>>

\* C8: a begin call made while a session is active returns failure and leaves
\* the object (partition, command, size, progress, pending buffer and its
\* length, sticky error, expected hash, hash state), the flash and the boot
\* target unchanged.
C8_BeginWhileActive ==
    [][(call'.name = "begin" /\ isRunning(upd))
       => /\ ~call'.ok
          /\ upd' = upd
          /\ flash' = flash /\ bootPartition' = bootPartition]_vars

\* C8's case: begin has been turned away by a session that holds pending
\* bytes and an expected hash.
C8_Witness ==
    /\ call.name = "begin" /\ ~call.ok /\ call.arg = "nonzero"
    /\ isRunning(upd) /\ upd._bufferLen > 0 /\ upd._target_md5.len = 32

C10_PeekMismatchNoError ==
    (/\ call.name = "writeStream" /\ call.arg = "other"
     /\ upd._partition = "ota" /\ pc = "idle")
    => call.zero /\ ~isRunning(upd) /\ ~hasError(upd)

\* C10 amended: a writeStream that peeks a wrong first byte on a flashable
\* target returns 0, takes no byte into the pending buffer, leaves the engine
\* idle (size 0, progress 0, buffer freed), issues no storage operation and
\* records the sticky error UPDATE_ERROR_MAGIC_BYTE.
C10_PeekMismatch ==
    [][(/\ call'.name = "writeStream" /\ call'.arg = "other"
        /\ pc = "idle" /\ upd._command = U_FLASH)
       => /\ call'.zero /\ pc' = "idle"
          /\ image' = image /\ upd'._bufferLen = 0
          /\ upd'._size = 0 /\ upd'._progress = 0 /\ ~upd'._buffer.alloc
          /\ ~call'.touched /\ flash' = flash
          /\ upd'._error = UPDATE_ERROR_MAGIC_BYTE]_vars

\* C10's case: a writeStream on a fresh flashable session has peeked a wrong
\* first byte.
C10_Witness ==
    /\ call.name = "writeStream" /\ call.arg = "other" /\ pc = "idle"
    /\ upd._partition = "ota" /\ image = <<>>
    /\ call.zero /\ ~isRunning(upd)

\* C11: an end call on an error-free session whose declared bytes have all
\* been flushed, with an expected hash set that is not the hash of what was
\* written, returns failure with the sticky error UPDATE_ERROR_MD5 and leaves
\* the boot target as it is; an end call made with no expected hash set does
\* not leave UPDATE_ERROR_MD5.
C11_HashGate ==
    [][(call'.name = "end")
       => /\ (/\ isRunning(upd) /\ ~hasError(upd)
              /\ isFinished(upd) /\ upd._bufferLen = 0
              /\ upd._target_md5.len > 0
              /\ upd._target_md5.val # upd._md5)
             => /\ ~call'.ok
                /\ upd'._error = UPDATE_ERROR_MD5
                /\ bootPartition' = bootPartition
          /\ upd._target_md5.len = 0
             => upd'._error # UPDATE_ERROR_MD5]_vars

\* C11's case: a whole flashable image has been written, and end has turned
\* it down for its hash without touching the boot target.
C11_Witness ==
    /\ call.name = "end" /\ ~call.ok
    /\ upd._error = UPDATE_ERROR_MD5
    /\ upd._partition = "ota"
    /\ declared > 0 /\ Len(image) = declared /\ ~short /\ ~faulted
    /\ bootPartition = "factory"

C13_WriteAfterError ==
    [][(call'.name = "write" /\ hasError(upd))
       => /\ call'.zero /\ ~call'.touched
          /\ upd' = upd
          /\ flash' = flash
          /\ bootPartition' = bootPartition
          /\ pc' = pc]_vars

\* C13's case: a session has failed in a flush, and a write called after it
\* has been turned away.
C13_Witness ==
    /\ call.name = "write" /\ call.arg = "idle" /\ call.zero
    /\ upd._error = UPDATE_ERROR_WRITE
    /\ declared > 0 /\ image # <<>>

\* C14: an abort call leaves the engine idle (declared size 0, progress 0,
\* pending buffer freed and empty, sticky error UPDATE_ERROR_ABORT) without
\* touching storage; a second abort right after it changes nothing; and from
\* the state it leaves, a begin with a size the partition can hold and a
\* target the partition table has succeeds (its buffer allocation succeeding)
\* with the error cleared.
C14_AbortIdempotent ==
    [][(call'.name = "abort")
       => /\ upd' = abort(upd)
          /\ abort(upd') = upd'
          /\ upd'._size = 0 /\ upd'._progress = 0
          /\ upd'._buffer = NullBlock /\ upd'._bufferLen = 0
          /\ upd'._error = UPDATE_ERROR_ABORT
          /\ flash' = flash /\ bootPartition' = bootPartition /\ pc' = "idle"
          /\ \A size \in (1..PartitionSize) \cup {UPDATE_SIZE_UNKNOWN},
                command \in {U_FLASH, U_SPIFFS} :
                (\/ command = U_FLASH /\ "ota" \in table
                 \/ command = U_SPIFFS /\ table \cap {"spiffs", "fat"} # {})
                => LET c == begin(Ctx(abort(upd'), flash', bootPartition'),
                                  size, command, table, TRUE)
                   IN /\ c.ok /\ ~hasError(c.u) /\ isRunning(c.u)
                      /\ c.u._progress = 0 /\ c.u._bufferLen = 0]_vars

\* C14's case: abort has been called on a session that had flushed part of
\* its image.
C14_Witness ==
    /\ call.name = "abort"
    /\ upd._error = UPDATE_ERROR_ABORT /\ upd._size = 0
    /\ declared > 0 /\ call.touched = FALSE
    /\ \E i \in 1..PartitionSize : flash["ota"][i] = ImageByte(i, OTHER_BYTE)

\* C15: when a write call has returned and the session is still active, the
\* pending buffer holds fewer bytes than one erase block.
C15_PendingBelowBlock ==
    (call.name = "write" /\ isRunning(upd) /\ ~hasError(upd))
    => upd._bufferLen < SPI_FLASH_SEC_SIZE

\* C16: the ingest loop of writeStream is left only when the session's
\* remaining size has reached zero, which is the case when all declared bytes
\* are flushed and when the session has been aborted (an abort zeroes the
\* declared size and the progress).
C16_StreamExit ==
    [][(pc = "stream" /\ pc' # "stream")
       => (pc' = "idle" /\ remaining(upd') = 0)]_vars

\* C17: in every state of an active session the bytes flushed to storage plus
\* the bytes held in the pending buffer do not exceed the declared size.
C17_Capacity ==
    (isRunning(upd) /\ ~hasError(upd))
    => upd._progress + upd._bufferLen <= upd._size

\* C18: a set sticky error implies an idle engine (declared size 0, progress
\* 0, pending buffer freed), and every failure return of the write path
\* leaves a sticky error set: a write on an active session that returns fewer
\* bytes than it was given, and a writeStream whose loop is left before the
\* declared bytes are flushed.
C18_NoHalfOpen ==
    [][/\ hasError(upd')
          => /\ upd'._size = 0 /\ upd'._progress = 0
             /\ upd'._buffer = NullBlock /\ upd'._bufferLen = 0
       /\ (\/ call'.name = "write" /\ call'.arg # "idle" /\ ~call'.ok
           \/ pc = "stream" /\ pc' = "idle" /\ ~isFinished(upd'))
          => hasError(upd')]_vars

\* C19: an end(true) call on an active flashable session that has flushed
\* nothing and holds nothing to flush (progress 0, empty pending buffer)
\* changes no byte of the storage and does not change the boot target.
C19_ActivationNeedsImage ==
    [][(/\ call'.name = "end" /\ call'.arg = "evenIfRemaining"
        /\ isRunning(upd) /\ ~hasError(upd)
        /\ upd._command = U_FLASH
        /\ upd._progress = 0 /\ upd._bufferLen = 0)
       => /\ flash' = flash
          /\ bootPartition' = bootPartition
          /\ ~call'.ok]_vars

\* C20: once the first flush of a flashable session has captured the stash,
\* the session has received at least a stash block of bytes (so the length
\* handed to the storage write, buffer length minus stash length, did not go
\* below zero) and the stash holds exactly the first bytes received.
C20_FirstFlushLength ==
    upd._skipBuffer.alloc
    => /\ Len(image) >= ENCRYPTED_BLOCK_SIZE
       /\ upd._skipBuffer.mem = Take(image, ENCRYPTED_BLOCK_SIZE)

====
